---- MODULE Spec2Model ----
(***************************************************************************)
(* A model of the wallet manager (ontology/wallet/wallet_manager.py,       *)
(* ontology/wallet/control.py) and of the RPC client                       *)
(* (ontology/rpc/rpc_client.py) of the ontology python SDK.                *)
(*                                                                         *)
(* Python values are modelled as follows.                                  *)
(*   - str passwords, labels, paths, addresses and hex keys are strings;   *)
(*     Python's None is the string None.                                   *)
(*   - a salt is a record [form, v]: form tells whether the value is the   *)
(*     str, the bytes or the base64 text of the salt v.                    *)
(*   - the key field of a record is [form |-> "gcm", ...] for the output   *)
(*     of the password-based wrap and [form |-> "hex", k] for the          *)
(*     private key in clear hexadecimal.                                   *)
(*   - an ONT ID is [prefix, addr]: the text prefix followed by addr.      *)
(***************************************************************************)
EXTENDS Integers, Sequences, FiniteSets, TLC

\* ------------------------------------------------------------------ bounds

\* Largest number of key records (accounts plus controls) held in memory.
MaxRecords == 2
\* Largest number of times the wallet is written to disk.
MaxSaves == 1
\* Largest number of Transaction objects alive at once.
MaxTx == 1
\* Largest number of sign_to_transaction calls on one Transaction object.
MaxSigns == 2
\* Latest reading of the clock, in seconds.
MaxClock == 3
\* Length of a script hash in bytes (20 in the program).
HashLen == 2
\* Largest child index the derivation test walks to (9 in the program).
MaxIndex == 4

\* ------------------------------------------------------------- input sets

None == "None"
Keys == {"k1", "k2"}
StrPwds == {"p", "q"}
\* the passwords wallets are created with, and the salts get_random_hex_str draws
CreatePwds == {"p", None}
RandomSalts == {"s1"}
ImportSalts == {"s1", "s2"}
Labels == {""}
Paths == {"w1", "w2"}

\* --------------------------------------------------- constants of the code

DID_ONT == "did:ont:"
DefaultN == 16384
SHA256withECDSA == "SHA256withECDSA"

\* --------------------------------------------------------------- encodings

Str(v) == [form |-> "str", v |-> v]

\* str.encode('latin-1') and str.encode() on the ASCII salts of the model
EncodeLatin1(s) == IF s.form = "str" THEN [form |-> "bytes", v |-> s.v] ELSE s
EncodeUtf8(s) == IF s.form = "str" THEN [form |-> "bytes", v |-> s.v] ELSE s
DecodeLatin1(b) == IF b.form = "bytes" THEN [form |-> "str", v |-> b.v] ELSE b
B64Encode(b) == IF b.form = "bytes" THEN [form |-> "b64", v |-> b.v] ELSE b
B64Decode(t) == IF t.form = "b64" THEN [form |-> "bytes", v |-> t.v] ELSE t

\* ------------------------------------------------------------------ Account

AddressOf(k) == IF k = "k1" THEN "A1" ELSE "A2"
PublicKeyHex(k) == IF k = "k1" THEN "P1" ELSE "P2"
PrivateKeyHex(k) == [form |-> "hex", k |-> k]

\* the salt as the key-stretching function consumes it
SaltBytes(s) == IF s.form = "str" THEN EncodeUtf8(s) ELSE s

\* wrap: Account.export_gcm_encrypted_private_key(password, salt, n)
ExportGcmEncryptedPrivateKey(k, password, salt, n) ==
    [form |-> "gcm", k |-> k, pwd |-> password, addr |-> AddressOf(k),
     salt |-> SaltBytes(salt), n |-> n]

\* unwrap: Account.get_gcm_decoded_private_key(key, password, address, salt, n, scheme)
\* [ok |-> TRUE, k |-> the private key], or [ok |-> FALSE] when the tag check fails
GetGcmDecodedPrivateKey(key, password, b58_address, salt, n) ==
    IF /\ key.form = "gcm"
       /\ key.pwd = password
       /\ key.addr = b58_address
       /\ key.salt = SaltBytes(salt)
       /\ key.n = n
    THEN [ok |-> TRUE, k |-> key.k]
    ELSE [ok |-> FALSE, k |-> None]

\* ---------------------------------------------------------------- outcomes

NoVal == [none |-> TRUE]
Ok(op, val) == [op |-> op, err |-> "", val |-> val]
Raise(op, msg) == [op |-> op, err |-> msg, val |-> NoVal]
AccountObj(k) == [private_key |-> k]

\* ------------------------------------------------------------ wallet records

OntId(addr) == [prefix |-> DID_ONT, addr |-> addr]
EmptyOntId == [prefix |-> "", addr |-> ""]
HasDidPrefix(ont_id) == ont_id.prefix = DID_ONT

WalletData(create_time, default_id, default_address, n, identities, accounts) ==
    [create_time |-> create_time, default_ont_id |-> default_id,
     default_account_address |-> default_address, scrypt_n |-> n,
     identities |-> identities, accounts |-> accounts]

EmptyWallet == WalletData("", EmptyOntId, "", DefaultN, <<>>, <<>>)

Control(kid, key, salt, address, public_key) ==
    [kid |-> kid, address |-> address, enc_alg |-> "aes-256-gcm", key |-> key,
     algorithm |-> "ECDSA", salt |-> salt, hash |-> "sha256", public_key |-> public_key]

\* isinstance(v, str)
IsStr(v) == v.form = "str"

\* the property setters of Control: the outcome and the object after the call
SetKey(c, key) ==
    IF ~IsStr(key)
    THEN [ret |-> Raise("Control.key", "require_str_params"), ctl |-> c]
    ELSE [ret |-> Ok("Control.key", NoVal), ctl |-> [c EXCEPT !.key = key]]

SetB58Address(c, b58_address) ==
    IF ~IsStr(b58_address)
    THEN [ret |-> Raise("Control.b58_address", "require_str_params"), ctl |-> c]
    ELSE [ret |-> Ok("Control.b58_address", NoVal), ctl |-> c]

SetPublicKey(c, b64_pub_key) ==
    IF ~IsStr(b64_pub_key)
    THEN [ret |-> Raise("Control.public_key", "Invalid public key."), ctl |-> c]
    ELSE [ret |-> Ok("Control.public_key", NoVal),
          ctl |-> [c EXCEPT !.public_key = b64_pub_key]]

SetSalt(c, salt) ==
    IF ~IsStr(salt)
    THEN [ret |-> Raise("Control.salt", "require_str_params"), ctl |-> c]
    ELSE [ret |-> Ok("Control.salt", NoVal), ctl |-> [c EXCEPT !.salt = salt]]

\* the property getters of Control
GetKey(c) == c.key
GetB58Address(c) == c.address
GetPublicKey(c) == c.public_key
GetSalt(c) == c.salt

RECURSIVE SumControls(_)
SumControls(ids) ==
    IF ids = <<>> THEN 0 ELSE Len(Head(ids).controls) + SumControls(Tail(ids))

NumRecords(w) == Len(w.accounts) + SumControls(w.identities)

IndexOfAccount(w, b58_address) ==
    LET hits == {i \in 1..Len(w.accounts) : w.accounts[i].b58_address = b58_address}
    IN IF hits = {} THEN 0 ELSE CHOOSE i \in hits : \A j \in hits : i <= j

IndexOfIdentity(w, ont_id) ==
    LET hits == {i \in 1..Len(w.identities) : w.identities[i].ont_id = ont_id}
    IN IF hits = {} THEN 0 ELSE CHOOSE i \in hits : \A j \in hits : i <= j

\* ------------------------------------------------------- __create_account

\* __create_account with the existence checks made after the record is added
CreateAccountInner_CheckAfter(w, label, pwd, salt, private_key, account_flag) ==
    LET key == IF pwd # None
               THEN ExportGcmEncryptedPrivateKey(private_key, pwd, salt, DefaultN)
               ELSE PrivateKeyHex(private_key)
        b58_address == AddressOf(private_key)
        lbl == IF label = None \/ label = "" THEN "uuid" ELSE label
        acct_data == [key |-> key, b58_address |-> b58_address, label |-> lbl,
                      salt |-> B64Encode(EncodeLatin1(salt)),
                      public_key |-> PublicKeyHex(private_key),
                      is_default |-> Len(w.accounts) = 0]
        ctl == Control("keys-1", key, B64Encode(EncodeUtf8(salt)), b58_address,
                       PublicKeyHex(private_key))
        idt == [ont_id |-> OntId(b58_address), label |-> lbl,
                is_default |-> Len(w.identities) = 0, controls |-> <<ctl>>]
    IN IF account_flag
       THEN [err |-> IF IndexOfAccount(w, b58_address) # 0
                     THEN "Wallet account exists." ELSE "",
             wallet |-> [w EXCEPT
                 !.default_account_address = IF Len(w.accounts) = 0 THEN b58_address ELSE @,
                 !.accounts = Append(@, acct_data)],
             account |-> private_key]
       ELSE [err |-> IF IndexOfIdentity(w, OntId(b58_address)) # 0
                     THEN "Wallet identity exists." ELSE "",
             wallet |-> [w EXCEPT
                 !.default_ont_id = IF Len(w.identities) = 0 THEN OntId(b58_address) ELSE @,
                 !.identities = Append(@, idt)],
             account |-> private_key]

\* [err, wallet, account]: err = "" and the wallet with the new record, or the
\* message of the exception and the wallet as it is left
CreateAccountInner(w, label, pwd, salt, private_key, account_flag) ==
    LET key == IF pwd # None
               THEN ExportGcmEncryptedPrivateKey(private_key, pwd, salt, DefaultN)
               ELSE PrivateKeyHex(private_key)
        b58_address == AddressOf(private_key)
        lbl == IF label = None \/ label = "" THEN "uuid" ELSE label
    IN IF account_flag
       THEN IF IndexOfAccount(w, b58_address) # 0
            THEN [err |-> "Wallet account exists.", wallet |-> w, account |-> private_key]
            ELSE LET first == Len(w.accounts) = 0
                     acct_data == [key |-> key, b58_address |-> b58_address,
                                   label |-> lbl,
                                   salt |-> B64Encode(EncodeLatin1(salt)),
                                   public_key |-> PublicKeyHex(private_key),
                                   is_default |-> first]
                 IN [err |-> "",
                     wallet |-> [w EXCEPT
                         !.default_account_address = IF first THEN b58_address ELSE @,
                         !.accounts = Append(@, acct_data)],
                     account |-> private_key]
       ELSE IF IndexOfIdentity(w, OntId(b58_address)) # 0
            THEN [err |-> "Wallet identity exists.", wallet |-> w, account |-> private_key]
            ELSE LET first == Len(w.identities) = 0
                     ctl == Control("keys-1", key, B64Encode(EncodeUtf8(salt)),
                                    b58_address, PublicKeyHex(private_key))
                     idt == [ont_id |-> OntId(b58_address), label |-> lbl,
                             is_default |-> first, controls |-> <<ctl>>]
                 IN [err |-> "",
                     wallet |-> [w EXCEPT
                         !.default_ont_id = IF first THEN OntId(b58_address) ELSE @,
                         !.identities = Append(@, idt)],
                     account |-> private_key]

\* ------------------------------------------------------------- wallet file

NoFile == [nofile |-> TRUE]

\* Control.__iter__: the dictionary json.dump writes for a control
\* (enc_alg stands for the key 'enc-alg')
ControlToDict(c) ==
    [address |-> c.address, algorithm |-> c.algorithm, enc_alg |-> c.enc_alg,
     hash |-> c.hash, id |-> c.kid, key |-> c.key, salt |-> c.salt,
     publicKey |-> c.public_key]

ControlFromDict(d) ==
    [kid |-> d.id, address |-> d.address, enc_alg |-> d.enc_alg, key |-> d.key,
     algorithm |-> d.algorithm, salt |-> d.salt, hash |-> d.hash,
     public_key |-> d.publicKey]

AccountToDict(a) ==
    [address |-> a.b58_address, label |-> a.label, key |-> a.key, salt |-> a.salt,
     publicKey |-> a.public_key, isDefault |-> a.is_default]

AccountFromDict(d) ==
    [key |-> d.key, b58_address |-> d.address, label |-> d.label, salt |-> d.salt,
     public_key |-> d.publicKey, is_default |-> d.isDefault]

IdentityToDict(i) ==
    [ontid |-> i.ont_id, label |-> i.label, isDefault |-> i.is_default,
     controls |-> [j \in 1..Len(i.controls) |-> ControlToDict(i.controls[j])]]

IdentityFromDict(d) ==
    [ont_id |-> d.ontid, label |-> d.label, is_default |-> d.isDefault,
     controls |-> [j \in 1..Len(d.controls) |-> ControlFromDict(d.controls[j])]]

\* json.dump(self.wallet_in_mem, f, default=lambda obj: dict(obj))
WalletToDict(w) ==
    [createTime |-> w.create_time, defaultOntid |-> w.default_ont_id,
     defaultAccountAddress |-> w.default_account_address,
     scrypt |-> [n |-> w.scrypt_n],
     identities |-> [j \in 1..Len(w.identities) |-> IdentityToDict(w.identities[j])],
     accounts |-> [j \in 1..Len(w.accounts) |-> AccountToDict(w.accounts[j])]]

\* load_file: the WalletData built from the JSON document
LoadFile(doc) ==
    WalletData(doc.createTime, doc.defaultOntid, doc.defaultAccountAddress,
               doc.scrypt.n,
               [j \in 1..Len(doc.identities) |-> IdentityFromDict(doc.identities[j])],
               [j \in 1..Len(doc.accounts) |-> AccountFromDict(doc.accounts[j])])

\* a wallet file found on disk: no accounts yet, written with a cheaper scrypt n
StoredWallet ==
    [createTime |-> "t0", defaultOntid |-> EmptyOntId, defaultAccountAddress |-> "",
     scrypt |-> [n |-> 4096], identities |-> <<>>, accounts |-> <<>>]

is_file_exist(fs, path) == path \in DOMAIN fs /\ fs[path] # NoFile

\* ------------------------------------------------------------ get_* queries

\* get_account_by_b58_address taking the key of the record without the tag check
GetAccountByB58Address_NoTagCheck(w, b58_address, password) ==
    LET i == IndexOfAccount(w, b58_address)
    IN IF i = 0
       THEN Raise("get_account_by_b58_address", "Get account failed.")
       ELSE Ok("get_account_by_b58_address", AccountObj(w.accounts[i].key.k))

GetAccountByB58Address(w, b58_address, password) ==
    LET i == IndexOfAccount(w, b58_address)
    IN IF i = 0
       THEN Raise("get_account_by_b58_address", "Get account failed.")
       ELSE LET acct == w.accounts[i]
                n == w.scrypt_n
                salt == B64Decode(acct.salt)
                r == GetGcmDecodedPrivateKey(acct.key, password, b58_address, salt, n)
            IN IF r.ok
               THEN Ok("get_account_by_b58_address", AccountObj(r.k))
               ELSE Raise("get_account_by_b58_address", "AuthenticationError")

\* a lookup that returns the account added last, whatever its is_default
GetDefaultAccount_Last(w) ==
    IF w.accounts = <<>>
    THEN Raise("get_default_account", "get_default_account_err")
    ELSE Ok("get_default_account", w.accounts[Len(w.accounts)])

\* get_default_account: the first account of the list whose is_default is set
GetDefaultAccount(w) ==
    LET hits == {i \in 1..Len(w.accounts) : w.accounts[i].is_default}
    IN IF hits = {}
       THEN Raise("get_default_account", "get_default_account_err")
       ELSE Ok("get_default_account",
               w.accounts[CHOOSE i \in hits : \A j \in hits : i <= j])

\* a lookup that returns the identity added last, whatever its is_default
GetDefaultIdentity_Last(w) ==
    IF w.identities = <<>>
    THEN Raise("get_default_identity", "param_error")
    ELSE Ok("get_default_identity", w.identities[Len(w.identities)])

\* get_default_identity: the first identity of the list whose is_default is set
GetDefaultIdentity(w) ==
    LET hits == {i \in 1..Len(w.identities) : w.identities[i].is_default}
    IN IF hits = {}
       THEN Raise("get_default_identity", "param_error")
       ELSE Ok("get_default_identity",
               w.identities[CHOOSE i \in hits : \A j \in hits : i <= j])

GetAccountByOntId(w, ont_id, password) ==
    IF ~HasDidPrefix(ont_id)
    THEN Raise("get_account_by_ont_id", "invalid_ont_id_format")
    ELSE LET i == IndexOfIdentity(w, ont_id)
         IN IF i = 0
            THEN Raise("get_account_by_ont_id", "Get account failed.")
            ELSE LET identity == w.identities[i]
                     addr == identity.ont_id.addr
                 IN IF Len(identity.controls) = 0
                    THEN Raise("get_account_by_ont_id", "IndexError")
                    ELSE LET key == identity.controls[1].key
                             salt == B64Decode(identity.controls[1].salt)
                             n == w.scrypt_n
                             r == GetGcmDecodedPrivateKey(key, password, addr, salt, n)
                         IN IF r.ok
                            THEN Ok("get_account_by_ont_id", AccountObj(r.k))
                            ELSE Raise("get_account_by_ont_id", "AuthenticationError")

\* a lookup that counts the controls from the end of the list
GetControlAccountByIndex_FromEnd(w, ont_id, index, password) ==
    IF ~HasDidPrefix(ont_id)
    THEN Raise("get_control_account_by_index", "invalid_ont_id_format")
    ELSE LET i == IndexOfIdentity(w, ont_id)
         IN IF i = 0
            THEN Raise("get_control_account_by_index", "Get identity failed.")
            ELSE LET identity == w.identities[i]
                 IN IF index + 1 > Len(identity.controls)
                    THEN Raise("get_control_account_by_index", "Get control account failed.")
                    ELSE LET ctrl == identity.controls[Len(identity.controls) - index]
                             salt == B64Decode(ctrl.salt)
                             n == w.scrypt_n
                             r == GetGcmDecodedPrivateKey(ctrl.key, password, ctrl.address,
                                                          salt, n)
                         IN IF r.ok
                            THEN Ok("get_control_account_by_index", AccountObj(r.k))
                            ELSE Raise("get_control_account_by_index", "AuthenticationError")

\* index is the Python index, from 0
GetControlAccountByIndex(w, ont_id, index, password) ==
    IF ~HasDidPrefix(ont_id)
    THEN Raise("get_control_account_by_index", "invalid_ont_id_format")
    ELSE LET i == IndexOfIdentity(w, ont_id)
         IN IF i = 0
            THEN Raise("get_control_account_by_index", "Get identity failed.")
            ELSE LET identity == w.identities[i]
                 IN IF index + 1 > Len(identity.controls)
                    THEN Raise("get_control_account_by_index", "Get control account failed.")
                    ELSE LET ctrl == identity.controls[index + 1]
                             salt == B64Decode(ctrl.salt)
                             n == w.scrypt_n
                             r == GetGcmDecodedPrivateKey(ctrl.key, password, ctrl.address,
                                                          salt, n)
                         IN IF r.ok
                            THEN Ok("get_control_account_by_index", AccountObj(r.k))
                            ELSE Raise("get_control_account_by_index", "AuthenticationError")

GetControlAccountByB58Address(w, ont_id, b58_address, password) ==
    IF ~HasDidPrefix(ont_id)
    THEN Raise("get_control_account_by_b58_address", "invalid_ont_id_format")
    ELSE LET i == IndexOfIdentity(w, ont_id)
         IN IF i = 0
            THEN Raise("get_control_account_by_b58_address", "Get identity failed.")
            ELSE LET identity == w.identities[i]
                     hits == {j \in 1..Len(identity.controls) :
                                 identity.controls[j].address = b58_address}
                 IN IF hits = {}
                    THEN Raise("get_control_account_by_b58_address", "Get account failed.")
                    ELSE LET ctrl == identity.controls[CHOOSE j \in hits :
                                                          \A h \in hits : j <= h]
                             salt == B64Decode(ctrl.salt)
                             n == w.scrypt_n
                             r == GetGcmDecodedPrivateKey(ctrl.key, password, ctrl.address,
                                                          salt, n)
                         IN IF r.ok
                            THEN Ok("get_control_account_by_b58_address", AccountObj(r.k))
                            ELSE Raise("get_control_account_by_b58_address",
                                       "AuthenticationError")

\* --------------------------------------------------- WalletManager operations
\* Each operation is [ret, wallet]: what the call returns or raises, and
\* wallet_in_mem as the call leaves it.

AccountByAddress(w, b58_address) ==
    LET i == IndexOfAccount(w, b58_address)
    IN IF i = 0 THEN NoVal ELSE w.accounts[i]

IdentityByOntId(w, ont_id) ==
    LET i == IndexOfIdentity(w, ont_id)
    IN IF i = 0 THEN NoVal ELSE w.identities[i]

CreateAccount(w, label, pwd, pri_key, salt) ==
    LET r == CreateAccountInner(w, label, pwd, salt, pri_key, TRUE)
    IN IF r.err # ""
       THEN [ret |-> Raise("create_account", r.err), wallet |-> r.wallet]
       ELSE [ret |-> Ok("create_account", AccountByAddress(r.wallet, AddressOf(r.account))),
             wallet |-> r.wallet]

CreateIdentityInner(w, label, pwd, salt, private_key) ==
    LET r == CreateAccountInner(w, label, pwd, salt, private_key, FALSE)
    IN [err |-> r.err, wallet |-> r.wallet,
        identity |-> IdentityByOntId(r.wallet, OntId(AddressOf(r.account)))]

CreateIdentity(w, label, pwd, pri_key, salt) ==
    LET r == CreateIdentityInner(w, label, pwd, salt, pri_key)
    IN IF r.err # ""
       THEN [ret |-> Raise("create_identity", r.err), wallet |-> r.wallet]
       ELSE [ret |-> Ok("create_identity", r.identity), wallet |-> r.wallet]

CreateIdentityFromPrivateKey(w, label, pwd, private_key, salt) ==
    LET r == CreateIdentityInner(w, label, pwd, salt, private_key)
    IN IF r.err # ""
       THEN [ret |-> Raise("create_identity_from_private_key", r.err), wallet |-> r.wallet]
       ELSE [ret |-> Ok("create_identity_from_private_key", r.identity),
             wallet |-> r.wallet]

ImportIdentity(w, label, encrypted_pri_key, pwd, salt, b58_address) ==
    LET d == GetGcmDecodedPrivateKey(encrypted_pri_key, pwd, b58_address, salt, DefaultN)
    IN IF ~d.ok
       THEN [ret |-> Raise("import_identity", "AuthenticationError"), wallet |-> w]
       ELSE LET r == CreateIdentityInner(w, label, pwd, salt, d.k)
            IN IF r.err # ""
               THEN [ret |-> Raise("import_identity", r.err), wallet |-> r.wallet]
               ELSE IF IndexOfIdentity(r.wallet, r.identity.ont_id) # 0
                    THEN [ret |-> Ok("import_identity", r.identity), wallet |-> r.wallet]
                    ELSE [ret |-> Raise("import_identity", "Import identity failed."),
                          wallet |-> r.wallet]

\* create_account_info adding the record whether or not its address is there
CreateAccountInfo_Unchecked(w, label, pwd, salt, private_key) ==
    LET r == CreateAccountInner_CheckAfter(w, label, pwd, salt, private_key, TRUE)
    IN [err |-> "", wallet |-> r.wallet,
        info |-> [address_base58 |-> AddressOf(r.account),
                  public_key |-> PublicKeyHex(r.account),
                  encrypted_pri_key |->
                      ExportGcmEncryptedPrivateKey(r.account, pwd, salt, DefaultN),
                  salt |-> salt]]

CreateAccountInfo(w, label, pwd, salt, private_key) ==
    LET r == CreateAccountInner(w, label, pwd, salt, private_key, TRUE)
    IN [err |-> r.err, wallet |-> r.wallet,
        info |-> [address_base58 |-> AddressOf(r.account),
                  public_key |-> PublicKeyHex(r.account),
                  encrypted_pri_key |->
                      ExportGcmEncryptedPrivateKey(r.account, pwd, salt, DefaultN),
                  salt |-> salt]]

ImportAccount(w, label, encrypted_pri_key, pwd, base58_address, base64_salt) ==
    LET salt == DecodeLatin1(B64Decode(base64_salt))
        d == GetGcmDecodedPrivateKey(encrypted_pri_key, pwd, base58_address, salt, DefaultN)
    IN IF ~d.ok
       THEN [ret |-> Raise("import_account", "AuthenticationError"), wallet |-> w]
       ELSE LET r == CreateAccountInfo(w, label, pwd, salt, d.k)
            IN IF r.err # ""
               THEN [ret |-> Raise("import_account", r.err), wallet |-> r.wallet]
               ELSE IF IndexOfAccount(r.wallet, r.info.address_base58) # 0
                    THEN [ret |-> Ok("import_account",
                                     AccountByAddress(r.wallet, r.info.address_base58)),
                          wallet |-> r.wallet]
                    ELSE [ret |-> Raise("import_account", "Import account failed."),
                          wallet |-> r.wallet]

CreateAccountFromPrivateKey(w, label, password, private_key, salt) ==
    LET r == CreateAccountInfo(w, label, password, salt, private_key)
    IN IF r.err # ""
       THEN [ret |-> Raise("create_account_from_private_key", r.err), wallet |-> r.wallet]
       ELSE IF IndexOfAccount(r.wallet, r.info.address_base58) # 0
            THEN [ret |-> Ok("create_account_from_private_key",
                             AccountByAddress(r.wallet, r.info.address_base58)),
                  wallet |-> r.wallet]
            ELSE [ret |-> Raise("create_account_from_private_key",
                                "Create account from key failed."),
                  wallet |-> r.wallet]

\* Identity.add_control
IdentityAddControl(identity, ctrl) ==
    [identity EXCEPT !.controls = Append(@, ctrl)]

AddControlByPrivateKey(w, ont_id, password, private_key, salt) ==
    IF ~HasDidPrefix(ont_id)
    THEN [ret |-> Raise("add_control_by_private_key", "invalid_ont_id_format"),
          wallet |-> w]
    ELSE IF password \notin StrPwds
    THEN [ret |-> Raise("add_control_by_private_key", "require_str_params"), wallet |-> w]
    ELSE LET b64_salt == B64Encode(EncodeUtf8(salt))
             key == ExportGcmEncryptedPrivateKey(private_key, password, salt, DefaultN)
             ctrl == Control("", key, b64_salt, AddressOf(private_key),
                             PublicKeyHex(private_key))
             i == IndexOfIdentity(w, ont_id)
         IN IF i = 0
            THEN [ret |-> Raise("add_control_by_private_key", "Get identity failed."),
                  wallet |-> w]
            ELSE [ret |-> Ok("add_control_by_private_key", AccountObj(private_key)),
                  wallet |-> [w EXCEPT
                      !.identities[i] = IdentityAddControl(@, ctrl)]]

\* -------------------------------------------------------------- transactions

\* Account.get_address().to_array(), Account.get_public_key()
AddressArray(k) == AddressOf(k)
PublicKey(k) == PublicKeyHex(k)

\* build_native_invoke_code(contract_address, bytes([0]), "transfer", state)
BuildNativeInvokeCode(contract_address, version, method, state) ==
    [contract |-> contract_address, version |-> version, method |-> method,
     args |-> state]

\* util.get_asset_address(asset)
AssetAddress(asset) == IF asset = "ont" THEN "ONT_CONTRACT" ELSE "ONG_CONTRACT"

\* Transaction(version, tx_type, nonce, gas_price, gas_limit, payer, payload,
\*             attributes, sigs, hash); the empty bytearray is ""
Transaction(version, tx_type, nonce, gas_price, gas_limit, payer, payload, sigs) ==
    [version |-> version, tx_type |-> tx_type, nonce |-> nonce,
     gas_price |-> gas_price, gas_limit |-> gas_limit, payer |-> payer,
     payload |-> payload, attributes |-> "", sigs |-> sigs]

NewTransferTransaction(gas_price, gas_limit, asset, from_addr, to_addr, amount) ==
    LET contract_address == AssetAddress(asset)
        state == <<[from |-> from_addr, to |-> to_addr, amount |-> amount]>>
        invoke_code == BuildNativeInvokeCode(contract_address, 0, "transfer", state)
        unix_timenow == 1
    IN Transaction(0, 209, unix_timenow, gas_price, gas_limit, "", invoke_code, <<>>)

\* Transaction.serialize_unsigned: the fields in their fixed order
SerializeUnsigned(tx) ==
    <<tx.version, tx.tx_type, tx.nonce, tx.gas_price, tx.gas_limit, tx.payer,
      tx.payload, tx.attributes>>

\* Transaction.serialize: the unsigned bytes followed by the signature groups
Serialize(tx) == [unsigned |-> SerializeUnsigned(tx), sigs |-> tx.sigs]

\* bytes.hex()
Hex(b) == [hex |-> b]

\* Transaction.hash256: the double SHA-256 of the unsigned serialization
Hash256(tx) == [sha256d |-> SerializeUnsigned(tx)]

\* Account.generateSignature(data, SignatureScheme.SHA256withECDSA)
GenerateSignature(k, data) == [by |-> k, over |-> data]

\* sign_to_data
SignToData(data, signer) == GenerateSignature(signer, data)

Sig(public_keys, M, sig_data) ==
    [public_keys |-> public_keys, M |-> M, sig_data |-> sig_data]

\* a signature list whose group names no public key
SignatureList_NoPublicKey(signer, sig_data) == <<Sig(<<>>, 1, <<sig_data>>)>>

\* line 159 of sign_to_transaction: the signature list it attaches
SignatureList(signer, sig_data) == <<Sig(<<PublicKey(signer)>>, 1, <<sig_data>>)>>

\* ---------------------------------------------------------------- JSON RPC

JSON_RPC_VERSION == "2.0"
RPC_GET_TRANSACTION == "getrawtransaction"

\* set_json_rpc_version: the module-level dictionary after the four assignments
SetJsonRpcVersion(method, param) ==
    [jsonrpc |-> JSON_RPC_VERSION, id |-> "1", method |-> method, params |-> param]

\* the request of get_raw_transaction (line 116) and of send_raw_transaction (line 171)
GetRawTransactionRequest(tx_hash) == SetJsonRpcVersion(RPC_GET_TRANSACTION, <<tx_hash, 1>>)
SendRawTransactionRequest(tx_data) == SetJsonRpcVersion(RPC_GET_TRANSACTION, <<tx_data, 1>>)

\* json.loads(r.content.decode())["result"]
ResultOf(op, response) ==
    IF response.has_result THEN Ok(op, response.result) ELSE Raise(op, "KeyError")

\* an int among the positional parameters
PyInt(v) == [form |-> "int", v |-> v]

\* the query methods that return the result field as it is, each with the
\* constant of ontology.rpc.define it names and the parameters it passes
QueryMethods ==
    {[op |-> "get_version", method |-> "RPC_GET_VERSION", params |-> <<>>],
     [op |-> "get_block_by_hash", method |-> "RPC_GET_BLOCK",
      params |-> <<Str("h1"), 1>>],
     [op |-> "get_block_by_height", method |-> "RPC_GET_BLOCK",
      params |-> <<PyInt("1"), 1>>],
     [op |-> "get_block_count", method |-> "RPC_GET_BLOCK_COUNT", params |-> <<>>],
     [op |-> "get_current_block_hash", method |-> "RPC_GET_CURRENT_BLOCK_HASH",
      params |-> <<>>],
     [op |-> "get_block_hash_by_height", method |-> "RPC_GET_BLOCK_HASH",
      params |-> <<PyInt("1"), 1>>],
     [op |-> "get_balance", method |-> "RPC_GET_BALANCE", params |-> <<Str("A1"), 1>>],
     [op |-> "get_smart_contract_event_by_txhash",
      method |-> "RPC_GET_SMART_CONTRACT_EVENT", params |-> <<Str("h1"), 1>>],
     [op |-> "get_smart_contract_event_by_block",
      method |-> "RPC_GET_SMART_CONTRACT_EVENT", params |-> <<PyInt("1"), 1>>],
     [op |-> "get_smart_contract", method |-> "RPC_GET_SMART_CONTRACT",
      params |-> <<Str("c1"), 1>>],
     [op |-> "get_generate_block_time", method |-> "RPC_GET_GENERATE_BLOCK_TIME",
      params |-> <<>>],
     [op |-> "get_merkle_proof", method |-> "RPC_GET_MERKLE_PROOF",
      params |-> <<Str("h1"), 1>>]}

\* the request of get_storage (line 95)
GetStorageRequest(addr, key) == SetJsonRpcVersion("RPC_GET_STORAGE", <<addr, key, 1>>)

\* bytearray.fromhex(s): the bytes a hexadecimal text stands for
FromHex(text) == text.hex

\* a | b on two bytes, bit by bit
RECURSIVE ByteOr(_, _)
ByteOr(a, b) ==
    IF a = 0 THEN b
    ELSE IF b = 0 THEN a
    ELSE (IF a % 2 = 1 \/ b % 2 = 1 THEN 1 ELSE 0) + 2 * ByteOr(a \div 2, b \div 2)

\* A Python int that may pass 2^31 is kept as its base-256 digits, least
\* significant first, with no zero digit at the top: 0 is the empty sequence.
RECURSIVE Normalize(_)
Normalize(d) ==
    IF d # <<>> /\ d[Len(d)] = 0 THEN Normalize(SubSeq(d, 1, Len(d) - 1)) ELSE d

\* the int of a byte
ByteInt(b) == Normalize(<<b>>)

\* x << n, for n a multiple of 8
ShiftLeft(x, n) == IF x = <<>> THEN <<>> ELSE [i \in 1..(n \div 8) |-> 0] \o x

\* x | y
IntOr(x, y) ==
    LET len == IF Len(x) > Len(y) THEN Len(x) ELSE Len(y)
        digit(d, i) == IF i <= Len(d) THEN d[i] ELSE 0
    IN Normalize([i \in 1..len |-> ByteOr(digit(x, i), digit(y, i))])

\* the int get_storage returns
BigInt(digits) == [form |-> "int", digits |-> digits]

\* a decoding that reads the eight bytes most significant first
StorageResultOf_BigEndian(op, response) ==
    IF ~response.has_result THEN Raise(op, "KeyError")
    ELSE LET s == FromHex(response.result)
         IN IF Len(s) < 8 THEN Raise(op, "IndexError")
            ELSE Ok(op, BigInt(Normalize([i \in 1..8 |-> s[9 - i]])))

\* get_storage, lines 97-101: the result is read as hexadecimal and
\* s[0] | s[1] << 8 | ... | s[7] << 56 is returned (<< binds tighter than |,
\* and | groups to the left)
StorageResultOf(op, response) ==
    IF ~response.has_result THEN Raise(op, "KeyError")
    ELSE LET s == FromHex(response.result)
         IN IF Len(s) < 8 THEN Raise(op, "IndexError")
            ELSE LET r1 == IntOr(ByteInt(s[1]), ShiftLeft(ByteInt(s[2]), 8))
                     r2 == IntOr(r1, ShiftLeft(ByteInt(s[3]), 16))
                     r3 == IntOr(r2, ShiftLeft(ByteInt(s[4]), 24))
                     r4 == IntOr(r3, ShiftLeft(ByteInt(s[5]), 32))
                     r5 == IntOr(r4, ShiftLeft(ByteInt(s[6]), 40))
                     r6 == IntOr(r5, ShiftLeft(ByteInt(s[7]), 48))
                     res == IntOr(r6, ShiftLeft(ByteInt(s[8]), 56))
                 IN Ok(op, BigInt(res))

\* ------------------------------------------------------------ address codec

\* the byte values script hashes are drawn from
ByteVals == {0, 1, 57, 58, 128, 255}

\* the version byte that is prepended to the script hash
ADDR_VERSION == 23

\* the first checksum byte of the double hash of a byte string
RECURSIVE Checksum(_)
Checksum(b) ==
    IF b = <<>> THEN 7
    ELSE (Checksum(SubSeq(b, 1, Len(b) - 1)) * 31 + b[Len(b)] + 1) % 256

\* big-endian bytes divided by 58: the quotient bytes and the remainder
RECURSIVE DivMod58(_, _)
DivMod58(b, rem) ==
    IF b = <<>> THEN [q |-> <<>>, r |-> rem]
    ELSE LET cur == rem * 256 + Head(b)
             rest == DivMod58(Tail(b), cur % 58)
         IN [q |-> <<cur \div 58>> \o rest.q, r |-> rest.r]

RECURSIVE StripZeros(_)
StripZeros(b) == IF b # <<>> /\ Head(b) = 0 THEN StripZeros(Tail(b)) ELSE b

RECURSIVE LeadingZeros(_)
LeadingZeros(b) == IF b # <<>> /\ Head(b) = 0 THEN 1 + LeadingZeros(Tail(b)) ELSE 0

\* the base-58 digits of a number given by its bytes, most significant first
RECURSIVE Base58Digits(_)
Base58Digits(b) ==
    IF StripZeros(b) = <<>> THEN <<>>
    ELSE LET d == DivMod58(StripZeros(b), 0) IN Append(Base58Digits(d.q), d.r)

\* base58.b58encode: one digit 0 (the character '1') per leading zero byte
Base58Encode(b) == [i \in 1..LeadingZeros(b) |-> 0] \o Base58Digits(b)

\* big-endian bytes times 58 plus a carry, least significant byte last
RECURSIVE MulAdd58(_, _)
MulAdd58(b, carry) ==
    IF b = <<>> THEN (IF carry = 0 THEN <<>> ELSE <<carry>>)
    ELSE LET cur == b[Len(b)] * 58 + carry
         IN Append(MulAdd58(SubSeq(b, 1, Len(b) - 1), cur \div 256), cur % 256)

RECURSIVE Base58Number(_, _)
Base58Number(digits, acc) ==
    IF digits = <<>> THEN acc
    ELSE Base58Number(Tail(digits), MulAdd58(acc, Head(digits)))

\* base58.b58decode
Base58Decode(digits) ==
    [i \in 1..LeadingZeros(digits) |-> 0] \o Base58Number(StripZeros(digits), <<>>)

\* Address(script_hash).b58encode(): version, hash, checksum, in base 58
AddressB58Encode(h) ==
    LET payload == <<ADDR_VERSION>> \o h
    IN Base58Encode(payload \o <<Checksum(payload)>>)

\* a decoding that hands back the version byte with the hash
AddressB58Decode_KeepsVersion(text) ==
    LET data == Base58Decode(text)
    IN IF Len(data) # HashLen + 2 THEN [err |-> "FormatError", bytes |-> <<>>]
       ELSE [err |-> "", bytes |-> SubSeq(data, 1, HashLen + 1)]

\* Address.b58decode(text).to_bytes(): the hash, or an error when the length,
\* the version or the checksum is wrong
AddressB58Decode(text) ==
    LET data == Base58Decode(text)
    IN IF Len(data) # HashLen + 2 THEN [err |-> "FormatError", bytes |-> <<>>]
       ELSE LET payload == SubSeq(data, 1, HashLen + 1)
            IN IF data[1] # ADDR_VERSION \/ data[HashLen + 2] # Checksum(payload)
               THEN [err |-> "FormatError", bytes |-> <<>>]
               ELSE [err |-> "", bytes |-> SubSeq(data, 2, HashLen + 1)]

\* ------------------------------------------------------------ HD public keys

\* the order of the group the public keys are points of
GroupOrder == 11

\* I = HMAC(chain_code, public_key || index), split into IL and IR
HmacIL(chain_code, public_key, index) ==
    (chain_code * 7 + public_key * 3 + index + 1) % GroupOrder
HmacIR(chain_code, public_key, index) ==
    (chain_code * 5 + public_key + index * 3 + 2) % GroupOrder

Fingerprint(public_key) == (public_key * 2 + 1) % GroupOrder

\* public derivation of one child: a new key, the parent is only read
DeriveChild(parent, index) ==
    [public_key |-> (parent.public_key
                       + HmacIL(parent.chain_code, parent.public_key, index)) % GroupOrder,
     chain_code |-> HmacIR(parent.chain_code, parent.public_key, index),
     depth |-> parent.depth + 1,
     parent_fingerprint |-> Fingerprint(parent.public_key),
     child_index |-> index]

RECURSIVE DerivePath(_, _)
DerivePath(key, path) ==
    IF path = <<>> THEN <<key>>
    ELSE <<key>> \o DerivePath(DeriveChild(key, Head(path)), Tail(path))

\* a derivation that moves the root it was given down to the leaf
FromPath_MovesRoot(root, path) ==
    LET chain == DerivePath(root, path)
    IN [chain |-> chain, root |-> chain[Len(chain)]]

\* HDPublicKey.from_path(root, path): the chain from root to leaf, and the
\* root object after the call
FromPath(root, path) == [chain |-> DerivePath(root, path), root |-> root]

\* HDPublicKey.b58decode(text): the key the text stands for
HdB58Decode(text) == text.key

\* Address.from_hd_public_key(key).b58encode()
AddressFromHdPublicKey(key) ==
    AddressB58Encode([i \in 1..HashLen |-> (key.public_key * i + 1) % 256])

\* -------------------------------------------------------------------- state

VARIABLES
    wallet_in_mem,   \* WalletManager.wallet_in_mem
    wallet_file,     \* WalletManager.wallet_file
    shared,          \* TRUE when wallet_file and wallet_in_mem are one object
    wallet_path,     \* WalletManager.__wallet_path
    files,           \* the file system: path -> JSON document, or NoFile
    saves,           \* how many times save() has written a file
    ret              \* the outcome of the last call

varsW == <<wallet_in_mem, wallet_file, shared, wallet_path, files, saves, ret>>

VARIABLES
    txs,             \* the Transaction objects, by identity
    nsigned,         \* per transaction: how many signatures were made for it
    JsonRpcRequest,  \* the module-level request dictionary of ontology.rpc.define
    th,              \* per thread: the call it is in, its position and locals
    now              \* int(time()): the clock, in seconds

varsR == <<txs, nsigned, JsonRpcRequest, th, now>>

VARIABLES
    ctl              \* a Control object of its own, changed through its setters

varsC == <<ctl>>

VARIABLES
    addr_test,       \* TestAddress.test_b58decode: its position and locals
    hd_test          \* TestAddress.test_from_hd_pubkey: its position and locals

varsT == <<addr_test, hd_test>>

VARIABLES
    last_synced      \* history: the wallet as open_wallet last loaded it or
                     \* write_wallet last saved it

varsH == <<last_synced>>
vars == <<varsW, varsR, varsC, varsT, varsH>>

\* ------------------------------------------------------------------ inputs

Addresses == {AddressOf(k) : k \in Keys}
OntIds == {OntId(a) : a \in Addresses} \cup {[prefix |-> "", addr |-> "A1"]}
Salts == {Str(v) : v \in RandomSalts}
CallerSalts == {Str(v) : v \in ImportSalts}
Base64Salts == {B64Encode(EncodeLatin1(s)) : s \in CallerSalts}
\* the encrypted keys a caller hands to import_account and import_identity
ImportKeys ==
    {ExportGcmEncryptedPrivateKey(k, "p", Str("s1"), DefaultN) : k \in Keys}
        \cup {PrivateKeyHex("k1")}

\* -------------------------------------------------------------------- init

InitW ==
    /\ wallet_in_mem = EmptyWallet
    /\ wallet_file = EmptyWallet
    /\ shared = FALSE
    /\ wallet_path = ""
    /\ files = [p \in Paths |-> IF p = "w1" THEN StoredWallet ELSE NoFile]
    /\ saves = 0
    /\ ret = Ok("__init__", NoVal)

Threads == {"t1", "t2"}

\* a thread that is in no call: out is what its last RPC returned or raised
IdleThread ==
    [pc |-> "idle", op |-> "", tx |-> 0, signer |-> "", tx_hash |-> NoVal,
     sig |-> <<>>, arg |-> NoVal, req |-> NoVal, out |-> Ok("", NoVal)]

InitR ==
    /\ txs = <<>>
    /\ nsigned = <<>>
    /\ JsonRpcRequest = SetJsonRpcVersion("", <<>>)
    /\ th = [t \in Threads |-> IdleThread]
    /\ now = 1

\* Control(): every argument left at its default
InitC == ctl = Control("", Str(""), Str(""), Str(""), Str(""))

\* utils.get_random_bytes(length): every script hash of the length
Hashes == [1..HashLen -> ByteVals]

InitAddrTest ==
    addr_test = [pc |-> "l41", rand_code |-> <<>>, b58_address |-> <<>>,
                 zero |-> <<>>, decode_address |-> <<>>]

\* the extended public keys the test may be set up with, as base-58 text
Xpubs ==
    {[key |-> [public_key |-> pk, chain_code |-> cc, depth |-> 3,
               parent_fingerprint |-> 0, child_index |-> 0]] :
        pk \in 0..(GroupOrder - 1), cc \in {1, 2}}

NoKey == [none |-> TRUE]

InitHdTest ==
    hd_test = [pc |-> "l30", bip32_pubkey |-> NoKey, hd_pub_key |-> NoKey,
               index |-> 0, child_pks |-> <<>>, address |-> <<>>]

InitT == InitAddrTest /\ InitHdTest

InitH == last_synced = EmptyWallet

Init == InitW /\ InitR /\ InitC /\ InitT /\ InitH

\* ----------------------------------------------------------------- actions

\* wallet_in_mem becomes w; wallet_file follows when it is the same object
SetMem(w) ==
    /\ wallet_in_mem' = w
    /\ wallet_file' = IF shared THEN w ELSE wallet_file
    /\ UNCHANGED shared

\* a call that works on wallet_in_mem alone
Apply(r) ==
    /\ NumRecords(r.wallet) <= MaxRecords
    /\ SetMem(r.wallet)
    /\ ret' = r.ret
    /\ UNCHANGED <<wallet_path, files, saves, varsR, varsC, varsT, varsH>>

\* save(): the path the wallet is written to exists after the call
SaveFails == wallet_path = ""
Saved(w) == [files EXCEPT ![wallet_path] = WalletToDict(w)]

open_wallet ==
    \E path \in Paths :
        /\ wallet_path' = path
        /\ UNCHANGED <<saves, varsR, varsC, varsT>>
        /\ IF ~is_file_exist(files, path)
           THEN /\ ret' = Raise("open_wallet", "Wallet file not found.")
                /\ UNCHANGED <<wallet_in_mem, wallet_file, shared, files, varsH>>
           ELSE /\ wallet_file' = LoadFile(files[path])
                /\ last_synced' = LoadFile(files[path])
                /\ wallet_in_mem' = LoadFile(files[path])
                /\ shared' = FALSE
                /\ ret' = Ok("open_wallet", LoadFile(files[path]))
                /\ UNCHANGED files

\* create_wallet(wallet_path): the outcome, the wallet in memory and the
\* files after the call; written tells whether save() wrote a file
CreateWallet(path) ==
    IF ~is_file_exist(files, path)
    THEN LET w == [wallet_in_mem EXCEPT !.create_time = "now"]
         IN IF SaveFails
            THEN [ret |-> Raise("create_wallet", "No such file or directory"),
                  mem |-> w, files |-> files, written |-> FALSE]
            ELSE [ret |-> Ok("create_wallet", NoVal),
                  mem |-> w, files |-> Saved(w), written |-> TRUE]
    ELSE [ret |-> Raise("create_wallet", "Wallet file has existed."),
          mem |-> wallet_in_mem, files |-> files, written |-> FALSE]

create_wallet ==
    \E path \in Paths :
        LET r == CreateWallet(path)
        IN /\ r.written => saves < MaxSaves
           /\ saves' = IF r.written THEN saves + 1 ELSE saves
           /\ SetMem(r.mem)
           /\ files' = r.files
           /\ ret' = r.ret
           /\ UNCHANGED <<wallet_path, varsR, varsC, varsT, varsH>>

write_wallet ==
    /\ UNCHANGED <<varsR, varsC, varsT>>
    /\ IF SaveFails
       THEN /\ ret' = Raise("write_wallet", "No such file or directory")
            /\ UNCHANGED <<wallet_in_mem, wallet_file, shared, wallet_path, files, saves,
                           varsH>>
       ELSE /\ saves < MaxSaves
            /\ saves' = saves + 1
            /\ files' = Saved(wallet_in_mem)
            /\ last_synced' = wallet_in_mem
            /\ wallet_file' = wallet_in_mem
            /\ shared' = TRUE
            /\ ret' = Ok("write_wallet", wallet_in_mem)
            /\ UNCHANGED <<wallet_in_mem, wallet_path>>

reset_wallet ==
    /\ wallet_in_mem' = wallet_file
    /\ shared' = FALSE
    /\ ret' = Ok("reset_wallet", wallet_file)
    /\ UNCHANGED <<wallet_file, wallet_path, files, saves, varsR, varsC, varsT, varsH>>

create_account ==
    \E label \in Labels, pwd \in CreatePwds, pri_key \in Keys, salt \in Salts :
        Apply(CreateAccount(wallet_in_mem, label, pwd, pri_key, salt))

create_identity ==
    \E label \in Labels, pwd \in CreatePwds, pri_key \in Keys, salt \in Salts :
        Apply(CreateIdentity(wallet_in_mem, label, pwd, pri_key, salt))

create_identity_from_private_key ==
    \E label \in Labels, pwd \in CreatePwds, private_key \in Keys, salt \in Salts :
        Apply(CreateIdentityFromPrivateKey(wallet_in_mem, label, pwd, private_key, salt))

create_account_from_private_key ==
    \E label \in Labels, pwd \in CreatePwds, private_key \in Keys, salt \in Salts :
        Apply(CreateAccountFromPrivateKey(wallet_in_mem, label, pwd, private_key, salt))

import_account ==
    \E label \in Labels, key \in ImportKeys, pwd \in StrPwds, addr \in Addresses,
       b64 \in Base64Salts :
        Apply(ImportAccount(wallet_in_mem, label, key, pwd, addr, b64))

import_identity ==
    \E label \in Labels, key \in ImportKeys, pwd \in StrPwds, salt \in CallerSalts,
       addr \in Addresses :
        Apply(ImportIdentity(wallet_in_mem, label, key, pwd, salt, addr))

add_control_by_private_key ==
    \E ont_id \in OntIds, pwd \in StrPwds \cup {None}, private_key \in Keys, salt \in Salts :
        Apply(AddControlByPrivateKey(wallet_in_mem, ont_id, pwd, private_key, salt))

\* a query: the wallet stays as it is
Query(r) ==
    /\ ret' = r
    /\ UNCHANGED <<wallet_in_mem, wallet_file, shared, wallet_path, files, saves, varsR, varsC, varsT, varsH>>

get_account_by_b58_address ==
    \E addr \in Addresses, pwd \in StrPwds :
        Query(GetAccountByB58Address(wallet_in_mem, addr, pwd))

get_account_by_ont_id ==
    \E ont_id \in OntIds, pwd \in StrPwds :
        Query(GetAccountByOntId(wallet_in_mem, ont_id, pwd))

get_control_account_by_index ==
    \E ont_id \in OntIds, index \in 0..MaxRecords, pwd \in StrPwds :
        Query(GetControlAccountByIndex(wallet_in_mem, ont_id, index, pwd))

get_control_account_by_b58_address ==
    \E ont_id \in OntIds, addr \in Addresses, pwd \in StrPwds :
        Query(GetControlAccountByB58Address(wallet_in_mem, ont_id, addr, pwd))

get_default_account == Query(GetDefaultAccount(wallet_in_mem))

get_default_identity == Query(GetDefaultIdentity(wallet_in_mem))

\* the values a caller assigns to a field of a Control: str, or bytes
ControlValues == {Str("a"), Str("b"), EncodeUtf8(Str("a"))}

\* an assignment to a property of the Control object
Assign(r) ==
    /\ ctl' = r.ctl
    /\ ret' = r.ret
    /\ UNCHANGED <<wallet_in_mem, wallet_file, shared, wallet_path, files, saves, varsR,
                   varsT, varsH>>

set_key == \E v \in ControlValues : Assign(SetKey(ctl, v))
set_b58_address == \E v \in ControlValues : Assign(SetB58Address(ctl, v))
set_public_key == \E v \in ControlValues : Assign(SetPublicKey(ctl, v))
set_salt == \E v \in ControlValues : Assign(SetSalt(ctl, v))

\* A Control object and its setters.
NextControl ==
    \/ set_key
    \/ set_b58_address
    \/ set_public_key
    \/ set_salt

SpecControl == Init /\ [][NextControl]_vars

\* test_b58decode, lines 40-41: rand_code = utils.get_random_bytes(length)
test_b58decode_l41 ==
    \E h \in Hashes :
        /\ addr_test.pc = "l41"
        /\ addr_test' = [addr_test EXCEPT !.pc = "l43", !.rand_code = h]
        /\ UNCHANGED <<varsW, varsR, varsC, hd_test, varsH>>

\* lines 42-43: b58_address = Address(rand_code).b58encode()
test_b58decode_l43 ==
    /\ addr_test.pc = "l43"
    /\ addr_test' = [addr_test EXCEPT
                         !.pc = "l44",
                         !.b58_address = AddressB58Encode(addr_test.rand_code)]
    /\ UNCHANGED <<varsW, varsR, varsC, hd_test, varsH>>

\* lines 44-45: zero = Address.b58decode(b58_address).to_bytes(), then
\* assertEqual(rand_code, zero)
test_b58decode_l44 ==
    /\ addr_test.pc = "l44"
    /\ LET r == AddressB58Decode(addr_test.b58_address)
       IN addr_test' = [addr_test EXCEPT
              !.pc = IF r.err # "" THEN "error"
                     ELSE IF r.bytes # addr_test.rand_code THEN "failed" ELSE "l46",
              !.zero = r.bytes]
    /\ UNCHANGED <<varsW, varsR, varsC, hd_test, varsH>>

\* lines 46-47: the same text is decoded again and compared again
test_b58decode_l46 ==
    /\ addr_test.pc = "l46"
    /\ LET r == AddressB58Decode(addr_test.b58_address)
       IN addr_test' = [addr_test EXCEPT
              !.pc = IF r.err # "" THEN "error"
                     ELSE IF r.bytes # addr_test.rand_code THEN "failed" ELSE "passed",
              !.decode_address = r.bytes]
    /\ UNCHANGED <<varsW, varsR, varsC, hd_test, varsH>>

\* TestAddress.test_b58decode on every script hash.
NextAddress ==
    \/ test_b58decode_l41
    \/ test_b58decode_l43
    \/ test_b58decode_l44
    \/ test_b58decode_l46

SpecAddress == Init /\ [][NextAddress]_vars

\* setUp, lines 29-31: self.bip32_pubkey
test_from_hd_pubkey_l30 ==
    \E text \in Xpubs :
        /\ hd_test.pc = "l30"
        /\ hd_test' = [hd_test EXCEPT !.pc = "l50", !.bip32_pubkey = text]
        /\ UNCHANGED <<varsW, varsR, varsC, addr_test, varsH>>

\* line 50: hd_pub_key = HDPublicKey.b58decode(self.bip32_pubkey)
test_from_hd_pubkey_l50 ==
    /\ hd_test.pc = "l50"
    /\ hd_test' = [hd_test EXCEPT !.pc = "l51",
                                  !.hd_pub_key = HdB58Decode(hd_test.bip32_pubkey)]
    /\ UNCHANGED <<varsW, varsR, varsC, addr_test, varsH>>

\* lines 51-52: the address of the root key itself
test_from_hd_pubkey_l51 ==
    /\ hd_test.pc = "l51"
    /\ hd_test' = [hd_test EXCEPT !.pc = "l59", !.index = 0,
                                  !.address = AddressFromHdPublicKey(hd_test.hd_pub_key)]
    /\ UNCHANGED <<varsW, varsR, varsC, addr_test, varsH>>

\* line 59: child_pks = HDPublicKey.from_path(hd_pub_key, f'0/{index}')
test_from_hd_pubkey_l59 ==
    /\ hd_test.pc = "l59"
    /\ LET r == FromPath(hd_test.hd_pub_key, <<0, hd_test.index>>)
       IN hd_test' = [hd_test EXCEPT !.pc = "l60", !.child_pks = r.chain,
                                     !.hd_pub_key = r.root]
    /\ UNCHANGED <<varsW, varsR, varsC, addr_test, varsH>>

\* lines 60-61: the address of child_pks[-1], then the next index
test_from_hd_pubkey_l60 ==
    /\ hd_test.pc = "l60"
    /\ hd_test' = [hd_test EXCEPT
           !.pc = IF hd_test.index < MaxIndex THEN "l59" ELSE "passed",
           !.index = IF hd_test.index < MaxIndex THEN @ + 1 ELSE @,
           !.address = AddressFromHdPublicKey(hd_test.child_pks[Len(hd_test.child_pks)])]
    /\ UNCHANGED <<varsW, varsR, varsC, addr_test, varsH>>

\* TestAddress.test_from_hd_pubkey on every extended public key.
NextHd ==
    \/ test_from_hd_pubkey_l30
    \/ test_from_hd_pubkey_l50
    \/ test_from_hd_pubkey_l51
    \/ test_from_hd_pubkey_l59
    \/ test_from_hd_pubkey_l60

SpecHd == Init /\ [][NextHd]_vars

\* The wallet in memory: every operation that reads or changes wallet_in_mem,
\* on a fresh manager or on a wallet loaded by open_wallet.
Next ==
    \/ open_wallet
    \/ create_account
    \/ create_identity
    \/ create_identity_from_private_key
    \/ create_account_from_private_key
    \/ import_account
    \/ import_identity
    \/ add_control_by_private_key
    \/ get_account_by_b58_address
    \/ get_account_by_ont_id
    \/ get_control_account_by_index
    \/ get_control_account_by_b58_address
    \/ get_default_account

Spec == Init /\ [][Next]_vars

\* A fresh manager: accounts and identities are created and imported.
NextCreate ==
    \/ create_account
    \/ create_account_from_private_key
    \/ import_account
    \/ create_identity
    \/ create_identity_from_private_key
    \/ import_identity
    \/ get_default_identity

SpecCreate == Init /\ [][NextCreate]_vars

\* The wallet and its file: open_wallet, create_wallet, write_wallet and
\* reset_wallet, with the operations that create accounts and identities.
NextFile ==
    \/ open_wallet
    \/ create_wallet
    \/ write_wallet
    \/ reset_wallet
    \/ create_account
    \/ create_identity

SpecFile == Init /\ [][NextFile]_vars

\* -------------------------------------------------------- RpcClient actions
\* A call runs in a thread, one step per source line that reads or writes a
\* Transaction object or the request dictionary; nothing in the code keeps two
\* calls from interleaving.

TxIds == 1..Len(txs)
\* the transactions a caller holds: a transaction transfer is still building
\* and signing is known to that call alone
Held == {x \in TxIds : ~\E t \in Threads : th[t].op = "transfer" /\ th[t].tx = x}
ToAddrs == {"A2"}
\* the sign_to_transaction calls in progress on transaction x
Signing(x) == {t \in Threads : th[t].tx = x /\ th[t].pc \in {"l156", "l157"}}
\* the body of a response: a result field, or an error field and no result
Responses ==
    {[has_result |-> TRUE, result |-> Str("r"), error |-> Str("0")],
     [has_result |-> FALSE, result |-> NoVal, error |-> Str("e")]}

\* the byte strings a node stores under a key: one byte set, a run of
\* different bytes, all bytes set, none set, nine bytes, and seven
StorageResults ==
    {[i \in 1..8 |-> IF i = k THEN 255 ELSE 0] : k \in 1..8}
        \cup {<<1, 2, 3, 4, 5, 6, 7, 8>>, <<1, 2, 3, 4, 5, 6, 7, 8, 9>>,
              <<1, 2, 3, 4, 5, 6, 7, 8, 0>>,
              [i \in 1..8 |-> 255], [i \in 1..8 |-> 0],
              <<0, 0, 0, 0, 0, 0, 0, 0, 255>>, <<1, 2, 3, 4, 5, 6, 7>>}

\* the body of a response to getstorage: the stored bytes in hexadecimal
StorageResponses ==
    {[has_result |-> TRUE, result |-> Hex(b), error |-> Str("0")] : b \in StorageResults}
        \cup {r \in Responses : ~r.has_result}

ResponsesTo(op) == IF op = "get_storage" THEN StorageResponses ELSE Responses

new_transfer_transaction ==
    \E from_account \in Keys, to_addr \in ToAddrs :
        /\ Len(txs) < MaxTx
        /\ txs' = Append(txs, NewTransferTransaction(500, 20000, "ont",
                                   AddressArray(from_account), to_addr, 1))
        /\ nsigned' = Append(nsigned, 0)
        /\ UNCHANGED <<JsonRpcRequest, th, now, varsW, varsC, varsT, varsH>>

\* transfer, line 140: the transaction is built, then signed by from_account
transfer ==
    \E t \in Threads, from_account \in Keys, to_addr \in ToAddrs :
        /\ th[t].pc = "idle"
        /\ Len(txs) < MaxTx
        /\ txs' = Append(txs, NewTransferTransaction(500, 20000, "ont",
                                   AddressArray(from_account), to_addr, 1))
        /\ nsigned' = Append(nsigned, 0)
        /\ th' = [th EXCEPT ![t] = [IdleThread EXCEPT
                      !.pc = "l156", !.op = "transfer", !.tx = Len(txs) + 1,
                      !.signer = from_account]]
        /\ UNCHANGED <<JsonRpcRequest, now, varsW, varsC, varsT, varsH>>

sign_to_transaction ==
    \E t \in Threads, x \in Held, signer \in Keys :
        /\ th[t].pc = "idle"
        /\ nsigned[x] + Cardinality(Signing(x)) < MaxSigns
        /\ th' = [th EXCEPT ![t] = [IdleThread EXCEPT
                      !.pc = "l156", !.op = "sign_to_transaction", !.tx = x,
                      !.signer = signer]]
        /\ UNCHANGED <<txs, nsigned, JsonRpcRequest, now, varsW, varsC, varsT, varsH>>

\* tx.payer = signer.get_address().to_array()
sign_l156 ==
    \E t \in Threads :
        /\ th[t].pc = "l156"
        /\ txs' = [txs EXCEPT ![th[t].tx].payer = AddressArray(th[t].signer)]
        /\ th' = [th EXCEPT ![t].pc = "l157"]
        /\ UNCHANGED <<nsigned, JsonRpcRequest, now, varsW, varsC, varsT, varsH>>

\* tx_hash = tx.hash256()
sign_l157 ==
    \E t \in Threads :
        /\ th[t].pc = "l157"
        /\ th' = [th EXCEPT ![t].pc = "l158", ![t].tx_hash = Hash256(txs[th[t].tx])]
        /\ UNCHANGED <<txs, nsigned, JsonRpcRequest, now, varsW, varsC, varsT, varsH>>

\* sig_data = self.sign_to_data(tx_hash, signer); sig = [Sig(...)]
\* (tx_hash is not read again, nor sig after line 161: they are dropped)
sign_l158 ==
    \E t \in Threads :
        /\ th[t].pc = "l158"
        /\ th' = [th EXCEPT ![t].pc = "l161",
                            ![t].tx_hash = NoVal,
                            ![t].sig = SignatureList(th[t].signer,
                                           SignToData(th[t].tx_hash, th[t].signer))]
        /\ nsigned' = [nsigned EXCEPT ![th[t].tx] = @ + 1]
        /\ UNCHANGED <<txs, JsonRpcRequest, now, varsW, varsC, varsT, varsH>>

\* tx.sigs = sig
sign_l161 ==
    \E t \in Threads :
        /\ th[t].pc = "l161"
        /\ txs' = [txs EXCEPT ![th[t].tx].sigs = th[t].sig]
        /\ th' = [th EXCEPT ![t].pc = "l162", ![t].sig = <<>>]
        /\ UNCHANGED <<nsigned, JsonRpcRequest, now, varsW, varsC, varsT, varsH>>

\* return tx: the object the caller passed in (for transfer, the one it built)
sign_l162 ==
    \E t \in Threads :
        /\ th[t].pc = "l162"
        /\ th' = [th EXCEPT ![t] = IdleThread]
        /\ UNCHANGED <<txs, nsigned, JsonRpcRequest, now, varsW, varsC, varsT, varsH>>

\* send_raw_transaction, lines 169-171
send_raw_transaction ==
    \E t \in Threads, x \in Held :
        /\ th[t].pc = "idle"
        /\ JsonRpcRequest' = SendRawTransactionRequest(Hex(Serialize(txs[x])))
        /\ th' = [th EXCEPT ![t] = [IdleThread EXCEPT
                      !.pc = "post", !.op = "send_raw_transaction", !.tx = x,
                      !.arg = Hex(Serialize(txs[x])),
                      !.req = SendRawTransactionRequest(Hex(Serialize(txs[x])))]]
        /\ UNCHANGED <<txs, nsigned, now, varsW, varsC, varsT, varsH>>

\* get_raw_transaction, line 116
get_raw_transaction ==
    \E t \in Threads, tx_hash \in {Str("h1")} :
        /\ th[t].pc = "idle"
        /\ JsonRpcRequest' = GetRawTransactionRequest(tx_hash)
        /\ th' = [th EXCEPT ![t] = [IdleThread EXCEPT
                      !.pc = "post", !.op = "get_raw_transaction", !.arg = tx_hash,
                      !.req = GetRawTransactionRequest(tx_hash)]]
        /\ UNCHANGED <<txs, nsigned, now, varsW, varsC, varsT, varsH>>

\* a query method, first line: rpc_struct = self.set_json_rpc_version(...)
query ==
    \E t \in Threads, m \in QueryMethods :
        /\ th[t].pc = "idle"
        /\ JsonRpcRequest' = SetJsonRpcVersion(m.method, m.params)
        /\ th' = [th EXCEPT ![t] = [IdleThread EXCEPT
                      !.pc = "post", !.op = m.op,
                      !.req = SetJsonRpcVersion(m.method, m.params)]]
        /\ UNCHANGED <<txs, nsigned, now, varsW, varsC, varsT, varsH>>

\* get_storage, line 95
get_storage ==
    \E t \in Threads, addr \in {Str("c1")}, key \in {Str("k")} :
        /\ th[t].pc = "idle"
        /\ JsonRpcRequest' = GetStorageRequest(addr, key)
        /\ th' = [th EXCEPT ![t] = [IdleThread EXCEPT
                      !.pc = "post", !.op = "get_storage",
                      !.req = GetStorageRequest(addr, key)]]
        /\ UNCHANGED <<txs, nsigned, now, varsW, varsC, varsT, varsH>>

\* r = HttpRequest.request("post", self.addr, rpc_struct), then
\* res = json.loads(r.content.decode())["result"]; return res
\* (rpc_struct is the module-level dictionary itself: what is posted is what
\* the dictionary holds when the request is made)
rpc_post ==
    \E t \in Threads :
      \E response \in ResponsesTo(th[t].op) :
        /\ th[t].pc = "post"
        /\ th' = [th EXCEPT ![t] = [IdleThread EXCEPT
                      !.out = IF th[t].op = "get_storage"
                              THEN StorageResultOf(th[t].op, response)
                              ELSE ResultOf(th[t].op, response)]]
        /\ UNCHANGED <<txs, nsigned, JsonRpcRequest, now, varsW, varsC, varsT, varsH>>

\* the clock advances
tick ==
    /\ now < MaxClock
    /\ now' = now + 1
    /\ UNCHANGED <<txs, nsigned, JsonRpcRequest, th, varsW, varsC, varsT, varsH>>

\* Signing: transactions are built and signed, by one signer or by several.
NextSign ==
    \/ new_transfer_transaction
    \/ transfer
    \/ sign_to_transaction
    \/ sign_l156
    \/ sign_l157
    \/ sign_l158
    \/ sign_l161
    \/ sign_l162

SpecSign == Init /\ [][NextSign]_vars

\* Building and signing while time passes.
NextClock ==
    \/ tick
    \/ new_transfer_transaction
    \/ transfer
    \/ sign_to_transaction
    \/ sign_l156
    \/ sign_l157
    \/ sign_l158
    \/ sign_l161
    \/ sign_l162

SpecClock == Init /\ [][NextClock]_vars

\* The RPC calls, on transactions built and signed by transfer.
NextRpc ==
    \/ transfer
    \/ sign_l156
    \/ sign_l157
    \/ sign_l158
    \/ sign_l161
    \/ sign_l162
    \/ send_raw_transaction
    \/ get_raw_transaction
    \/ query
    \/ get_storage
    \/ rpc_post

SpecRpc == Init /\ [][NextRpc]_vars

\* get_storage alone: every stored byte string is read back.
NextStorage ==
    \/ get_storage
    \/ rpc_post

SpecStorage == Init /\ [][NextStorage]_vars

\* ------------------------------------------------------------------ claims

Indices(seq) == 1..Len(seq)
IsEncrypted(key) == key.form = "gcm"
\* the password a key record is stored under: None for a key kept in clear
StoredPwd(key) == IF IsEncrypted(key) THEN key.pwd ELSE None
AllPwds == StrPwds \cup {None}

NoClearKeyInWallet(w) ==
    /\ \A i \in Indices(w.accounts) : IsEncrypted(w.accounts[i].key)
    /\ \A i \in Indices(w.identities) :
           \A j \in Indices(w.identities[i].controls) :
               IsEncrypted(w.identities[i].controls[j].key)

NoClearKeyInFile(doc) ==
    /\ \A i \in Indices(doc.accounts) : IsEncrypted(doc.accounts[i].key)
    /\ \A i \in Indices(doc.identities) :
           \A j \in Indices(doc.identities[i].controls) :
               IsEncrypted(doc.identities[i].controls[j].key)

\* C1: no account or control record of wallet_in_mem, and no record of a
\* wallet file written by save, carries a private key in clear form: every key
\* field is the password-encrypted key.
C1_NoClearKey ==
    /\ NoClearKeyInWallet(wallet_in_mem)
    /\ \A path \in Paths : is_file_exist(files, path) => NoClearKeyInFile(files[path])

\* C2: in every wallet state, every account stored under a password is
\* recovered by get_account_by_b58_address with that password, and every
\* identity by get_account_by_ont_id, with the private key that was wrapped.
C2_CreateThenGet ==
    /\ \A i \in Indices(wallet_in_mem.accounts) :
           LET a == wallet_in_mem.accounts[i]
           IN IsEncrypted(a.key) =>
                  GetAccountByB58Address(wallet_in_mem, a.b58_address, a.key.pwd)
                      = Ok("get_account_by_b58_address", AccountObj(a.key.k))
    /\ \A i \in Indices(wallet_in_mem.identities) :
           LET idt == wallet_in_mem.identities[i]
               key == idt.controls[1].key
           IN IsEncrypted(key) =>
                  GetAccountByOntId(wallet_in_mem, idt.ont_id, key.pwd)
                      = Ok("get_account_by_ont_id", AccountObj(key.k))

\* C3: for every account, identity and control stored under password p, the
\* four get calls raise for every password p2 # p and return no Account.
C3_WrongPasswordRaises ==
    \A p2 \in AllPwds :
        /\ \A i \in Indices(wallet_in_mem.accounts) :
               LET a == wallet_in_mem.accounts[i]
               IN StoredPwd(a.key) # p2 =>
                      GetAccountByB58Address(wallet_in_mem, a.b58_address, p2).err # ""
        /\ \A i \in Indices(wallet_in_mem.identities) :
               LET idt == wallet_in_mem.identities[i]
               IN /\ StoredPwd(idt.controls[1].key) # p2 =>
                         /\ GetAccountByOntId(wallet_in_mem, idt.ont_id, p2).err # ""
                         /\ GetControlAccountByB58Address(wallet_in_mem, idt.ont_id,
                                                          idt.ont_id.addr, p2).err # ""
                  /\ \A j \in Indices(idt.controls) :
                         StoredPwd(idt.controls[j].key) # p2 =>
                             GetControlAccountByIndex(wallet_in_mem, idt.ont_id,
                                                      j - 1, p2).err # ""

\* C3 witness: a get call with a wrong password has raised on an account
\* that is stored under a password and unwraps with the right one.
C3_Witness ==
    /\ ret.op = "get_account_by_b58_address"
    /\ ret.err = "AuthenticationError"
    /\ \E i \in Indices(wallet_in_mem.accounts) :
           LET a == wallet_in_mem.accounts[i]
           IN /\ IsEncrypted(a.key)
              /\ GetAccountByB58Address(wallet_in_mem, a.b58_address, a.key.pwd).err = ""
              /\ \E p2 \in StrPwds :
                     /\ p2 # a.key.pwd
                     /\ GetAccountByB58Address(wallet_in_mem, a.b58_address, p2) = ret

WalletContent(w) ==
    <<w.accounts, w.identities, w.default_account_address, w.default_ont_id>>

\* C8: a call that raises leaves the accounts, identities,
\* default_account_address and default_ont_id of wallet_in_mem as they were.
C8_RaiseLeavesWallet ==
    [][ret'.err # "" => WalletContent(wallet_in_mem') = WalletContent(wallet_in_mem)]_vars

\* C8 witness: import_account has raised on a wallet that holds records.
C8_Witness ==
    /\ ret.op \in {"import_account", "import_identity"}
    /\ ret.err # ""
    /\ NumRecords(wallet_in_mem) > 0

\* C9: import_account and create_account_from_private_key never raise: they
\* return the stored AccountData, or None when they fail.
C9_ReturnsNoneOnFailure ==
    ret.op \in {"import_account", "create_account_from_private_key"} =>
        /\ ret.err = ""
        /\ \/ ret.val = NoVal
           \/ \E i \in Indices(wallet_in_mem.accounts) : wallet_in_mem.accounts[i] = ret.val

\* the threads inside a signing call on transaction x
InSign(x) ==
    {t \in Threads : th[t].tx = x /\ th[t].pc \in {"l156", "l157", "l158", "l161", "l162"}}

\* C4: the signature attached to the transaction sign_to_transaction returns
\* is over the digest of that transaction with its final payer, the signer's
\* address, and its final payload.
C4_SignatureOverFinalDigest ==
    \A t \in Threads :
        th[t].pc = "l162" =>
            LET tx == txs[th[t].tx]
            IN /\ tx.payer = AddressArray(th[t].signer)
               /\ tx.sigs = SignatureList(th[t].signer,
                                SignToData(Hash256(tx), th[t].signer))

\* C5: once two or more signers have signed a transaction, it carries one
\* signature group per signer, each over the one digest of the transaction.
C5_OneGroupPerSigner ==
    \A x \in TxIds :
        (InSign(x) = {} /\ nsigned[x] >= 2) =>
            /\ Len(txs[x].sigs) = nsigned[x]
            /\ \A i \in Indices(txs[x].sigs) :
                   txs[x].sigs[i].sig_data[1].over = Hash256(txs[x])

\* C6: no step of sign_to_transaction changes the payer or the signature
\* list of a transaction object: signing leaves its input as it was.
C6_SigningLeavesInput ==
    [][\A x \in TxIds :
           /\ txs'[x].payer = txs[x].payer
           /\ txs'[x].sigs = txs[x].sigs]_vars

\* C7: every signature group of every transaction has 1 <= M <= number of
\* public keys, and no more signature values than public keys.
C7_GroupInvariant ==
    \A x \in TxIds :
        \A i \in Indices(txs[x].sigs) :
            LET g == txs[x].sigs[i]
            IN /\ 1 <= g.M
               /\ g.M <= Len(g.public_keys)
               /\ Len(g.sig_data) <= Len(g.public_keys)

\* C7 witness: sign_to_transaction is returning a transaction that carries a
\* signature group.
C7_Witness ==
    \E t \in Threads :
        /\ th[t].pc = "l162"
        /\ th[t].op \in {"sign_to_transaction", "transfer"}
        /\ txs[th[t].tx].sigs # <<>>

\* C10: the request send_raw_transaction posts carries a method name other
\* than the one get_raw_transaction sends, and the hexadecimal signed
\* serialization of its transaction as first parameter.
C10_SendUsesSubmitMethod ==
    \A t \in Threads :
        (th[t].pc = "post" /\ th[t].op = "send_raw_transaction") =>
            /\ JsonRpcRequest.method # GetRawTransactionRequest(Str("h1")).method
            /\ JsonRpcRequest.params # <<>>
            /\ JsonRpcRequest.params[1] = th[t].arg

\* C11: the nonce of a transaction built by new_transfer_transaction or by
\* transfer is the reading of the clock at the moment of the call.
C11_NonceFollowsClock ==
    [][Len(txs') > Len(txs) => txs'[Len(txs')].nonce = now]_vars

\* C12: with no account in the wallet get_default_account raises; otherwise
\* exactly one account has is_default set, it is the first one added, the
\* wallet's default_account_address is its address, and get_default_account
\* returns it.
C12_DefaultIsFirstAccount ==
    LET w == wallet_in_mem
        r == GetDefaultAccount(w)
    IN IF w.accounts = <<>>
       THEN r.err # ""
       ELSE /\ {i \in Indices(w.accounts) : w.accounts[i].is_default} = {1}
            /\ w.default_account_address = w.accounts[1].b58_address
            /\ r.err = ""
            /\ r.val = w.accounts[1]

\* C12 witness: get_default_account has returned the first of two accounts.
C12_Witness ==
    /\ ret.op = "get_default_account"
    /\ ret.err = ""
    /\ Len(wallet_in_mem.accounts) = 2
    /\ ret.val = wallet_in_mem.accounts[1]

\* C13: for each of key, salt, public_key and b58_address, assigning a str v
\* makes the getter, and the dictionary the Control iterates to, return v;
\* assigning a value that is not a str raises and leaves the field as it was.
C13_SettersStoreStr ==
    \A v \in ControlValues :
        LET k == SetKey(ctl, v)
            s == SetSalt(ctl, v)
            p == SetPublicKey(ctl, v)
            a == SetB58Address(ctl, v)
        IN IF IsStr(v)
           THEN /\ k.ret.err = "" /\ GetKey(k.ctl) = v /\ ControlToDict(k.ctl).key = v
                /\ s.ret.err = "" /\ GetSalt(s.ctl) = v /\ ControlToDict(s.ctl).salt = v
                /\ p.ret.err = "" /\ GetPublicKey(p.ctl) = v
                /\ ControlToDict(p.ctl).publicKey = v
                /\ a.ret.err = "" /\ GetB58Address(a.ctl) = v
                /\ ControlToDict(a.ctl).address = v
           ELSE /\ k.ret.err # "" /\ GetKey(k.ctl) = GetKey(ctl)
                /\ s.ret.err # "" /\ GetSalt(s.ctl) = GetSalt(ctl)
                /\ p.ret.err # "" /\ GetPublicKey(p.ctl) = GetPublicKey(ctl)
                /\ a.ret.err # "" /\ GetB58Address(a.ctl) = GetB58Address(ctl)

\* C14: every identity of wallet_in_mem has at least one control, its first
\* control's address is its ont_id without the DID prefix, and for every
\* password get_account_by_ont_id and get_control_account_by_index at index 0
\* both return the same account or both raise.
C14_FirstControlIsIdentity ==
    \A i \in Indices(wallet_in_mem.identities) :
        LET idt == wallet_in_mem.identities[i]
        IN /\ Len(idt.controls) >= 1
           /\ HasDidPrefix(idt.ont_id)
           /\ idt.controls[1].address = idt.ont_id.addr
           /\ \A pwd \in StrPwds :
                  LET a == GetAccountByOntId(wallet_in_mem, idt.ont_id, pwd)
                      b == GetControlAccountByIndex(wallet_in_mem, idt.ont_id, 0, pwd)
                  IN /\ (a.err = "") <=> (b.err = "")
                     /\ a.val = b.val

\* C14 witness: get_account_by_ont_id has returned the account of an identity
\* that holds a second control, added by add_control_by_private_key.
C14_Witness ==
    /\ ret.op = "get_account_by_ont_id"
    /\ ret.err = ""
    /\ \E i \in Indices(wallet_in_mem.identities) :
           LET idt == wallet_in_mem.identities[i]
           IN /\ Len(idt.controls) = 2
              /\ idt.controls[2].address # idt.controls[1].address
              /\ \E pwd \in StrPwds :
                     /\ GetAccountByOntId(wallet_in_mem, idt.ont_id, pwd) = ret
                     /\ GetControlAccountByIndex(wallet_in_mem, idt.ont_id, 0, pwd).val
                            = ret.val

\* C15: for every script hash h, decoding the base-58 text of Address(h)
\* gives h back, and decoding the same text a second time gives h again.
C15_DecodeEncode ==
    /\ addr_test.pc \notin {"error", "failed"}
    /\ addr_test.pc \in {"l46", "passed"} => addr_test.zero = addr_test.rand_code
    /\ addr_test.pc = "passed" =>
           /\ addr_test.decode_address = addr_test.rand_code
           /\ addr_test.decode_address = addr_test.zero

\* C15 witness: the test has passed on a hash that begins with a zero byte,
\* whose text is not the bytes of the hash.
C15_Witness ==
    /\ addr_test.pc = "passed"
    /\ addr_test.rand_code[1] = 0
    /\ addr_test.b58_address # addr_test.rand_code
    /\ Len(addr_test.b58_address) > HashLen

QueryOps == {m.op : m \in QueryMethods} \cup {"get_storage", "get_raw_transaction"}

\* C17: a query method that has returned has yielded the result field of the
\* response, or its error field when the response had an error and no
\* result; it has not raised.
C17_QueryYieldsResultOrError ==
    \A t \in Threads :
        th[t].out.op \in QueryOps =>
            /\ th[t].out.err = ""
            /\ th[t].out.val \in {r.result : r \in {x \in Responses : x.has_result}}
                                  \cup {r.error : r \in {x \in Responses : ~x.has_result}}

\* C18: the payload a call posts carries the method name and the parameters
\* that call itself passed to set_json_rpc_version.
C18_PostsOwnRequest ==
    \A t \in Threads :
        th[t].pc = "post" =>
            /\ JsonRpcRequest.method = th[t].req.method
            /\ JsonRpcRequest.params = th[t].req.params

\* C19: wallet_file is the wallet as it was last loaded by open_wallet or
\* last saved by write_wallet, whatever was changed in memory since, and
\* reset_wallet makes wallet_in_mem that wallet again.
C19_ResetRestoresSaved ==
    /\ wallet_file = last_synced
    /\ ret.op = "reset_wallet" => wallet_in_mem = last_synced

\* C20: create_wallet(wallet_path) writes the wallet in memory to wallet_path
\* when no file is there, so that wallet_path holds a file afterwards, and
\* when a file is there it raises 'Wallet file has existed.' and writes
\* nothing.
C20_CreateWritesToPath ==
    \A path \in Paths :
        LET r == CreateWallet(path)
        IN IF ~is_file_exist(files, path)
           THEN /\ r.ret.err = ""
                /\ is_file_exist(r.files, path)
                /\ r.files[path] = WalletToDict(r.mem)
                /\ \A other \in Paths \ {path} : r.files[other] = files[other]
           ELSE /\ r.ret.err = "Wallet file has existed."
                /\ r.files = files


\* C21: an open_wallet call that raises because no file is at the path leaves
\* the manager as it was: the path save() writes to, wallet_in_mem,
\* wallet_file and the files on disk.
C21_FailedOpenLeavesState ==
    [][(ret'.op = "open_wallet" /\ ret'.err # "") =>
           /\ wallet_path' = wallet_path
           /\ wallet_in_mem' = wallet_in_mem
           /\ wallet_file' = wallet_file
           /\ files' = files]_vars

C23_DefaultIsFirstIdentity ==
    LET w == wallet_in_mem
    IN /\ \A i, j \in Indices(w.identities) :
              w.identities[i].ont_id = w.identities[j].ont_id => i = j
       /\ w.identities # <<>> =>
              /\ {i \in Indices(w.identities) : w.identities[i].is_default} = {1}
              /\ w.default_ont_id = w.identities[1].ont_id
              /\ GetDefaultIdentity(w) = Ok("get_default_identity", w.identities[1])

\* C23 witness: get_default_identity has returned the first of two
\* identities.
C23_Witness ==
    /\ ret.op = "get_default_identity"
    /\ ret.err = ""
    /\ Len(wallet_in_mem.identities) = 2
    /\ ret.val = wallet_in_mem.identities[1]
    /\ ret.val # wallet_in_mem.identities[2]

\* C24: for every result of at least 8 bytes get_storage returns the integer
\* whose 8-byte little-endian encoding is the first 8 bytes of the result:
\* it has at most 8 base-256 digits, each in 0..255, digit i is byte i, the
\* three lowest bytes weigh 1, 256 and 65536, and results that agree on
\* their first 8 bytes give the same value.
C24_LittleEndianU64 ==
    LET Long == {r \in StorageResponses : r.has_result /\ Len(FromHex(r.result)) >= 8}
        get(r) == StorageResultOf("get_storage", r)
        digit(d, i) == IF i <= Len(d) THEN d[i] ELSE 0
    IN /\ \A r \in Long :
              LET s == FromHex(r.result)
                  d == get(r).val.digits
              IN /\ get(r).err = ""
                 /\ Len(d) <= 8
                 /\ \A i \in 1..Len(d) : d[i] \in 0..255
                 /\ d = <<>> \/ d[Len(d)] # 0
                 /\ \A i \in 1..8 : digit(d, i) = s[i]
                 /\ digit(d, 1) + 256 * digit(d, 2) + 65536 * digit(d, 3)
                        = s[1] + 256 * s[2] + 65536 * s[3]
       /\ \A r1, r2 \in Long :
              SubSeq(FromHex(r1.result), 1, 8) = SubSeq(FromHex(r2.result), 1, 8)
                  => get(r1) = get(r2)
       /\ \A t \in Threads :
              (th[t].out.op = "get_storage" /\ th[t].out.err = "") =>
                  \E r \in Long : th[t].out = get(r)

\* C24 witness: get_storage has returned an integer of eight digits that
\* are all different.
C24_Witness ==
    \E t \in Threads :
        /\ th[t].out.op = "get_storage"
        /\ th[t].out.err = ""
        /\ th[t].out.val.digits = <<1, 2, 3, 4, 5, 6, 7, 8>>

====
